---- MODULE Spec2Model ----
(***************************************************************************)
(* A model of the SendMoney chat application (kaael1/felix):               *)
(*   - the chat client  Home  (page.tsx: handleSendMessage, handleReset),  *)
(*   - the proxy route  POST  (app/api/chat/route.ts, the FastAPI proxy),  *)
(*   - the earlier in-process route POST with processUserMessage           *)
(*     (geminiService.ts),                                                 *)
(*   - the progress bar of  StatePanel  (StatePanel.tsx),                  *)
(*   - the environment: the user, the clock, the Python backend and the    *)
(*     hosted model, each a nondeterministic choice over small sets.       *)
(***************************************************************************)
EXTENDS Integers, Sequences, FiniteSets, TLC

VARIABLES
    \* ---- client (Home) ----
    messages,       \* useState<Message[]>
    transferState,  \* useState<TransferState>
    inputValue,     \* useState('')
    isLoading,      \* useState(false)
    sessionId,      \* useState<string>(randomUUID)
    issuedIds,      \* number of identifiers crypto.randomUUID has handed out
    now,            \* Date.now()
    calls,          \* the pending activations of handleSendMessage, oldest first
    sends,          \* number of accepted sends (bounded by MaxSends)
    panel,          \* the progress percentage StatePanel renders from its state prop
    \* ---- proxy route POST ----
    req,            \* the request the route is handling
    reqs,           \* the requests the route handles concurrently, by activation
    \* ---- in-process route POST + processUserMessage ----
    svc,            \* the activation of the route / of processUserMessage
    streak          \* consecutive failed model invocations, and the state before them

vars == <<messages, transferState, inputValue, isLoading, sessionId, issuedIds,
          now, calls, sends, panel, req, reqs, svc, streak>>

clientVars == <<messages, transferState, inputValue, isLoading, sessionId,
                issuedIds, now, calls, sends, panel>>
svcVars == <<svc, streak>>

(***************************************************************************)
(* Bounds of the model.                                                    *)
(***************************************************************************)
MaxSends == 2   \* accepted sends of the client per behaviour
MaxClock == 1   \* ticks of the clock
MaxIds == 1     \* identifiers randomUUID may hand out after the first
MaxCalls == 2   \* length of a streak of failed model invocations that is counted
MaxReqs == 2    \* requests the route handles at the same time

(***************************************************************************)
(* JavaScript values.  A text is a sequence of one-character strings;      *)
(* a JSON value is a record  [t |-> its type, s |-> its text].             *)
(***************************************************************************)
Null == <<"null">>          \* the value null of a  string | null  field
WS == " "

JUndefined == [t |-> "undefined", s |-> <<>>]
JNull == [t |-> "null", s |-> <<>>]
JStr(s) == [t |-> "string", s |-> s]
JNum(s) == [t |-> "number", s |-> s]
JBool(s) == [t |-> "boolean", s |-> s]
JObject == [t |-> "object", s |-> <<>>]

\* typeof v
TypeOf(v) == IF v.t = "null" THEN "object" ELSE v.t

\* ToBoolean(v): what  !v  and  v || d  test
Truthy(v) ==
    CASE v.t = "undefined" -> FALSE
      [] v.t = "null" -> FALSE
      [] v.t = "string" -> v.s # <<>>
      [] v.t = "number" -> v.s # <<"0">>
      [] v.t = "boolean" -> v.s = <<"t">>
      [] OTHER -> TRUE

\* the decimal digits, as characters
Digits == <<"0", "1", "2", "3", "4", "5", "6", "7", "8", "9">>

\* String.prototype.trim
RECURSIVE TrimLeft(_)
TrimLeft(s) == IF s # <<>> /\ Head(s) = WS THEN TrimLeft(Tail(s)) ELSE s
RECURSIVE TrimRight(_)
TrimRight(s) ==
    IF s # <<>> /\ s[Len(s)] = WS THEN TrimRight(SubSeq(s, 1, Len(s) - 1)) ELSE s
\* a trim that leaves the whitespace at the end
TrimLeftOnly(s) == TrimLeft(s)

Trim(s) == TrimRight(TrimLeft(s))

\* s.split(/\s+/).length
RECURSIVE SplitCount(_, _)
SplitCount(s, inGap) ==
    IF s = <<>> THEN 1
    ELSE IF Head(s) = WS
         THEN (IF inGap THEN 0 ELSE 1) + SplitCount(Tail(s), TRUE)
         ELSE SplitCount(Tail(s), FALSE)
SplitLength(s) == SplitCount(s, FALSE)

(***************************************************************************)
(* types.ts                                                                *)
(***************************************************************************)
MkState(c, a, b, d, done) ==
    [destinationCountry |-> c, amount |-> a, beneficiaryName |-> b,
     deliveryMethod |-> d, isComplete |-> done]

INITIAL_STATE == MkState(Null, Null, Null, Null, FALSE)

Brazil == <<"B">>
Amount == <<"5">>
Bank == <<"K">>
OneName == <<"a">>
FullName == <<"a", " ", "b">>
PaddedName == <<" ", "a", " ">>

\* the states a reply may carry: the model's output is not checked by any
\* local code, so consistent and inconsistent ones alike
States ==
    { INITIAL_STATE,
      MkState(Brazil, Amount, Null, Null, FALSE),
      MkState(Brazil, Amount, OneName, Bank, FALSE),
      MkState(Brazil, Amount, FullName, Bank, TRUE),
      MkState(Brazil, Amount, FullName, Bank, FALSE),
      MkState(Brazil, Amount, PaddedName, Bank, TRUE),
      MkState(Null, Null, Null, Null, TRUE) }

MkMessage(id, role, content, ts, promo) ==
    [id |-> id, role |-> role, content |-> content, timestamp |-> ts, promo |-> promo]

\* promo: "undefined" (absent), "null", or "PROMO" (a PromoData object)
Promos == {"undefined", "null", "PROMO"}

(***************************************************************************)
(* Messages on the wire.  JSON.stringify turns a Date into its ISO string  *)
(* and drops an undefined promo; JSON.parse gives the string back.         *)
(***************************************************************************)
TsDate(n) == [t |-> "Date", n |-> n]
TsString(n) == [t |-> "string", n |-> n]
TsUndefined == [t |-> "undefined", n |-> 0]
TsNull == [t |-> "null", n |-> 0]
TsInvalid == [t |-> "InvalidDate", n |-> 0]

\* Date.prototype.toJSON: the ISO string, or null for an Invalid Date
SerializeTimestamp(ts) ==
    CASE ts.t = "Date" -> TsString(ts.n)
      [] ts.t = "InvalidDate" -> TsNull
      [] ts.t = "undefined" -> TsUndefined
      [] OTHER -> ts

\* msg.timestamp instanceof Date ? msg.timestamp : new Date(msg.timestamp)
NormalizeTimestamp(ts) ==
    CASE ts.t = "Date" -> ts
      [] ts.t = "string" -> TsDate(ts.n)
      [] ts.t = "null" -> TsDate(0)
      [] OTHER -> TsInvalid

\* one element of a messageHistory array: a message object, or null
Item(m) == [isNull |-> FALSE, msg |-> m]
NullItem ==
    [isNull |-> TRUE,
     msg |-> MkMessage([kind |-> "none", n |-> 0], "none", JUndefined, TsUndefined, "undefined")]

\* JSON.stringify(message)
SerializeMessage(m) == [m EXCEPT !.timestamp = SerializeTimestamp(m.timestamp)]
SerializeHistory(h) == [i \in 1..Len(h) |-> Item(SerializeMessage(h[i]))]

\* a messageHistory value of a request body
HistArray(items) == [t |-> "array", items |-> items]
HistOther(t) == [t |-> t, items |-> <<>>]
HistTruthy(h) == h.t \in {"array", "string", "object"}

(***************************************************************************)
(* The Python backend, seen from the proxy: the body of its HTTP answer.   *)
(* json says whether the body parses: "object", "null" or "invalid".       *)
(***************************************************************************)
MkBody(json, agentResponse, updatedState, promo, detail) ==
    [json |-> json, agentResponse |-> agentResponse, updatedState |-> updatedState,
     promo |-> promo, detail |-> detail]

EmptyObject == MkBody("object", JUndefined, <<>>, "undefined", JUndefined)
InvalidBody == MkBody("invalid", JUndefined, <<>>, "undefined", JUndefined)
NullBody == MkBody("null", JUndefined, <<>>, "undefined", JUndefined)

ReplyText == <<"o", "k">>
DetailText == <<"n", "o">>

ReplyBodies ==
    { MkBody("object", JStr(ReplyText), <<s>>, p, JUndefined) :
        s \in States, p \in {"undefined", "PROMO"} }
    \cup { MkBody("object", JStr(ReplyText), <<>>, "null", JUndefined),
           MkBody("object", JUndefined, <<INITIAL_STATE>>, "undefined", JUndefined),
           MkBody("object", JStr(<<>>), <<INITIAL_STATE>>, "undefined", JUndefined) }

DetailBodies ==
    { MkBody("object", JUndefined, <<>>, "undefined", d) :
        d \in {JStr(DetailText), JStr(<<>>), JNum(<<"0">>), JNull, JObject} }

BackendBodies == ReplyBodies \cup DetailBodies \cup {EmptyObject, InvalidBody, NullBody}

BackendStatuses == {200, 201, 400, 422, 503}

\* Response.ok
Ok(status) == status >= 200 /\ status <= 299

\* what fetch() to the backend settles with: a Response, or a rejection
Answer(status, body) == [rejected |-> FALSE, status |-> status, body |-> body]
Rejection == [rejected |-> TRUE, status |-> 0, body |-> InvalidBody]
BackendAnswers ==
    { Answer(st, b) : st \in BackendStatuses, b \in BackendBodies } \cup {Rejection}

(***************************************************************************)
(* The proxy route: POST of app/api/chat/route.ts (the FastAPI proxy).     *)
(***************************************************************************)
\* a response of the route: NextResponse.json(data) or NextResponse.json({error}, {status})
DataResponse(status, data) ==
    [status |-> status, kind |-> "data", data |-> data, error |-> JUndefined]
ErrorResponse(status, error) ==
    [status |-> status, kind |-> "error", data |-> EmptyObject, error |-> error]

\* the fixed texts, each kept whole as a one-element text
UserMessageRequired == JStr(<<"userMessage is required and must be a string">>)
PythonServiceError == JStr(<<"Python service error">>)
InternalServerError == JStr(<<"Internal server error">>)
CurrentStateRequired == JStr(<<"currentState is required">>)

\* a request body: parse is "object", "null" (the JSON text null) or "invalid"
MkRequest(parse, userMessage, messageHistory, sid) ==
    [parse |-> parse, userMessage |-> userMessage,
     messageHistory |-> messageHistory, sessionId |-> sid]

\* await request.json() or the destructuring of its result throws
BodyThrows(body) == body.parse # "object"

\* a validation that checks the type only
IsNotStringUserMessage(um) == TypeOf(um) # "string"

\* !userMessage || typeof userMessage !== 'string'
IsInvalidUserMessage(um) == ~Truthy(um) \/ TypeOf(um) # "string"

\* (messageHistory || []).map(...) throws: no map on a non-array, msg.timestamp of null
NormalizeThrows(h) ==
    /\ HistTruthy(h)
    /\ \/ h.t # "array"
       \/ \E i \in 1..Len(h.items) : h.items[i].isNull

\* normalizedHistory, as JSON.stringify writes it into the forwarded body
NormalizedHistory(h) ==
    IF ~HistTruthy(h) THEN <<>>
    ELSE [i \in 1..Len(h.items) |->
            Item([h.items[i].msg EXCEPT
                    !.timestamp =
                        SerializeTimestamp(NormalizeTimestamp(h.items[i].msg.timestamp))])]

\* String(v), as URLSearchParams.set applies it
ToText(v) ==
    CASE v.t \in {"string", "number"} -> v.s
      [] v.t = "boolean" -> IF v.s = <<"t">> THEN <<"t", "r", "u", "e">>
                                              ELSE <<"f", "a", "l", "s", "e">>
      [] OTHER -> <<"[", "o", "b", "j", "]">>

\* the query parameter is never set
SessionParamOmitted(sid) == <<>>

\* if (sessionId) url.searchParams.set('session_id', sessionId)
SessionParam(sid) == IF Truthy(sid) THEN <<ToText(sid)>> ELSE <<>>

\* the fetch the route issues: the query parameter and the JSON body
Forward(body) ==
    [session_id |-> SessionParam(body.sessionId),
     userMessage |-> body.userMessage,
     messageHistory |-> NormalizedHistory(body.messageHistory)]

\* a route without its catch block: the exception leaves the handler
OnExceptionUnhandled(resps) == resps

\* the fetch is issued twice (a retry that does not look at the first answer)
IssueFetchTwice(fetches, body) == Append(Append(fetches, Forward(body)), Forward(body))

\* const response = await fetch(url.toString(), {...})
IssueFetch(fetches, body) == Append(fetches, Forward(body))

\* the catch block of the route
OnException(resps) == Append(resps, ErrorResponse(500, InternalServerError))

\* response.json().catch(() => ({}))
ErrorBodyOf(body) == IF body.json = "invalid" THEN EmptyObject ELSE body

\* a backend error surfaced with a fixed status instead of the backend's
BackendErrorAs500(status, body) ==
    ErrorResponse(500,
        IF Truthy(ErrorBodyOf(body).detail) THEN ErrorBodyOf(body).detail
        ELSE PythonServiceError)

\* errorBody?.detail || 'Python service error', with the backend's status
BackendErrorResponse(status, body) ==
    ErrorResponse(status,
        IF Truthy(ErrorBodyOf(body).detail) THEN ErrorBodyOf(body).detail
        ELSE PythonServiceError)

\* a success that re-wraps the reply and loses its promo
SuccessResponseWithoutPromo(data) == DataResponse(200, [data EXCEPT !.promo = "undefined"])

\* NextResponse.json(data)
SuccessResponse(data) == DataResponse(200, data)

\* the activations of the route that may run at the same time
ReqIds == 1..MaxReqs

IdleReq ==
    [pc |-> "idle", origin |-> "none",
     body |-> MkRequest("invalid", JUndefined, HistOther("undefined"), JUndefined),
     fetches |-> <<>>, answer |-> Rejection, resps |-> <<>>]

\* lines 57-90: parse, validate, normalise, forward
BeginOf(r) ==
    IF BodyThrows(r.body)
    THEN [r EXCEPT !.pc = "done", !.resps = OnException(r.resps)]
    ELSE IF IsInvalidUserMessage(r.body.userMessage)
    THEN [r EXCEPT !.pc = "done",
                   !.resps = Append(r.resps, ErrorResponse(400, UserMessageRequired))]
    ELSE IF NormalizeThrows(r.body.messageHistory)
    THEN [r EXCEPT !.pc = "done", !.resps = OnException(r.resps)]
    ELSE [r EXCEPT !.pc = "forwarded", !.fetches = IssueFetch(r.fetches, r.body)]

POSTBegin ==
    /\ req.pc = "received"
    /\ req' = BeginOf(req)
    /\ UNCHANGED <<clientVars, reqs, svcVars>>

\* the backend (or the network) settles the forwarded fetch
BackendAnswer ==
    /\ req.pc = "forwarded"
    /\ \E a \in BackendAnswers : req' = [req EXCEPT !.pc = "answered", !.answer = a]
    /\ UNCHANGED <<clientVars, reqs, svcVars>>

\* lines 92-109: the backend's answer becomes the route's response
FinishOf(r, response) ==
    IF response.rejected
    THEN [r EXCEPT !.pc = "done", !.resps = OnException(r.resps)]
    ELSE IF ~Ok(response.status)
    THEN [r EXCEPT !.pc = "done",
                   !.resps = Append(r.resps,
                                BackendErrorResponse(response.status, response.body))]
    ELSE IF response.body.json = "invalid"
    THEN [r EXCEPT !.pc = "done", !.resps = OnException(r.resps)]
    ELSE [r EXCEPT !.pc = "done", !.resps = Append(r.resps, SuccessResponse(response.body))]

POSTFinish ==
    /\ req.pc = "answered"
    /\ req' = FinishOf(req, req.answer)
    /\ UNCHANGED <<clientVars, reqs, svcVars>>

(***************************************************************************)
(* Requests that reach the route from anywhere (not only from Home).       *)
(***************************************************************************)
Hello == <<"h", "i">>
SampleMessage ==
    MkMessage([kind |-> "ms", n |-> 1], "user", JStr(Hello), TsString(1), "undefined")

UserMessages ==
    { JUndefined, JNull, JStr(<<>>), JStr(Hello), JNum(<<"5">>), JNum(<<"0">>),
      JBool(<<"t">>), JObject }

Histories ==
    { HistOther("undefined"), HistOther("null"), HistOther("string"),
      HistArray(<<>>), HistArray(<<Item(SampleMessage)>>), HistArray(<<NullItem>>),
      HistArray(<<Item([SampleMessage EXCEPT !.timestamp = TsUndefined])>>) }

SessionValues == { JUndefined, JStr(<<>>), JStr(<<"s">>), JNum(<<"7">>) }

RequestBodies ==
    { MkRequest("object", um, h, sid) :
        um \in UserMessages, h \in Histories, sid \in SessionValues }
    \cup { MkRequest("invalid", JUndefined, HistOther("undefined"), JUndefined),
           MkRequest("null", JUndefined, HistOther("undefined"), JUndefined) }

(***************************************************************************)
(* Several activations of POST at the same time: each has its own locals   *)
(* (body, normalizedHistory, url, response); the module keeps no variable  *)
(* besides the constant PYTHON_SERVICE_URL.                                *)
(***************************************************************************)
ConcurrentBodies ==
    { MkRequest("object", JStr(Hello), HistArray(<<Item(SampleMessage)>>), JStr(<<"s">>)),
      MkRequest("object", JStr(Hello), HistOther("undefined"), JUndefined),
      MkRequest("object", JStr(<<>>), HistArray(<<>>), JStr(<<"s">>)),
      MkRequest("object", JStr(Hello), HistOther("string"), JStr(<<"s">>)),
      MkRequest("invalid", JUndefined, HistOther("undefined"), JUndefined) }

ConcurrentAnswers ==
    { Answer(200, MkBody("object", JStr(ReplyText), <<INITIAL_STATE>>, "undefined", JUndefined)),
      Answer(200, MkBody("object", JStr(ReplyText),
                         <<MkState(Brazil, Amount, FullName, Bank, TRUE)>>, "PROMO", JUndefined)),
      Answer(200, InvalidBody),
      Answer(422, MkBody("object", JUndefined, <<>>, "undefined", JStr(DetailText))),
      Answer(503, InvalidBody),
      Rejection }

\* the response is kept in a variable of the module: an activation reads the
\* one the earliest answered activation put there
ResponseOfAny(rs, r) ==
    rs[CHOOSE q \in ReqIds :
          /\ rs[q].pc = "answered"
          /\ \A o \in ReqIds : rs[o].pc = "answered" => q <= o].answer

\* const response = await fetch(...): the response to this activation's fetch
OwnResponse(rs, r) == rs[r].answer

\* a request arrives while others are being handled
POSTReceive ==
    /\ \E r \in ReqIds, b \in ConcurrentBodies :
         /\ reqs[r].pc = "idle"
         /\ reqs' = [reqs EXCEPT ![r] = [IdleReq EXCEPT !.pc = "received",
                                                    !.origin = "any", !.body = b]]
    /\ UNCHANGED <<clientVars, req, svcVars>>

\* lines 57-90 of one activation
ConcurrentBegin ==
    /\ \E r \in ReqIds :
         /\ reqs[r].pc = "received"
         /\ reqs' = [reqs EXCEPT ![r] = BeginOf(reqs[r])]
    /\ UNCHANGED <<clientVars, req, svcVars>>

\* the backend settles the fetch of one activation
ConcurrentAnswer ==
    /\ \E r \in ReqIds, a \in ConcurrentAnswers :
         /\ reqs[r].pc = "forwarded"
         /\ reqs' = [reqs EXCEPT ![r].pc = "answered", ![r].answer = a]
    /\ UNCHANGED <<clientVars, req, svcVars>>

\* lines 92-109 of one activation
ConcurrentFinish ==
    /\ \E r \in ReqIds :
         /\ reqs[r].pc = "answered"
         /\ reqs' = [reqs EXCEPT ![r] = FinishOf(reqs[r], OwnResponse(reqs, r))]
    /\ UNCHANGED <<clientVars, req, svcVars>>

\* the response of one activation has been sent
ConcurrentRespond ==
    /\ \E r \in ReqIds :
         /\ reqs[r].pc = "done"
         /\ reqs' = [reqs EXCEPT ![r] = IdleReq]
    /\ UNCHANGED <<clientVars, req, svcVars>>

(***************************************************************************)
(* processUserMessage (geminiService.ts) and the in-process route POST     *)
(* that calls it (route.ts, lines 5-45).                                   *)
(***************************************************************************)
HistoryWindow == 10

\* the first k elements instead of the last
SliceFirst(s, k) == IF Len(s) <= k THEN s ELSE SubSeq(s, 1, k)

\* s.slice(-k)
SliceLast(s, k) == IF Len(s) <= k THEN s ELSE SubSeq(s, Len(s) - k + 1, Len(s))

ApologyText ==
    JStr(<<"I'm having trouble connecting to the network right now. Please try again in a moment.">>)

\* a fallback that starts the transfer over instead of keeping the caller's state
FallbackFromInitial(currentState) ==
    MkBody("object", ApologyText, <<INITIAL_STATE>>, "undefined", JUndefined)

\* the object the catch block returns
Fallback(currentState) ==
    MkBody("object", ApologyText, <<currentState>>, "undefined", JUndefined)

\* how the promise of processUserMessage settles
Resolved(value) == [kind |-> "resolved", value |-> value]
Rejected == [kind |-> "rejected", value |-> EmptyObject]

\* a catch block that logs and throws again
RethrowServiceError(currentState) == Rejected

\* catch (error) { console.error(...); return {...} }
OnServiceError(currentState) == Resolved(Fallback(currentState))

\* what the hosted model call gives: a rejection, or a result with its text
NoOutcome == [kind |-> "none", text |-> InvalidBody]
ModelRejects == [kind |-> "rejects", text |-> InvalidBody]
ModelNoText == [kind |-> "noText", text |-> InvalidBody]
ModelText(b) == [kind |-> "text", text |-> b]
ModelOutcomes ==
    {ModelRejects, ModelNoText}
    \cup { ModelText(b) : b \in ReplyBodies \cup {EmptyObject, InvalidBody, NullBody} }

\* the characters of a role, and String.prototype.toUpperCase on them
RoleText(role) ==
    IF role = "user" THEN <<"u", "s", "e", "r">> ELSE <<"a", "g", "e", "n", "t">>
UpperChar(c) ==
    CASE c = "u" -> "U" [] c = "s" -> "S" [] c = "e" -> "E" [] c = "r" -> "R"
      [] c = "a" -> "A" [] c = "g" -> "G" [] c = "n" -> "N" [] c = "t" -> "T"
      [] OTHER -> c
ToUpperCase(t) == [i \in 1..Len(t) |-> UpperChar(t[i])]

\* `${m.role.toUpperCase()}: ${m.content}`
HistoryLine(m) == ToUpperCase(RoleText(m.role)) \o <<":", " ">> \o m.content.s

\* chatHistoryText, lines 254-257: one line per message, joined by newlines
chatHistoryText(messageHistory) ==
    [i \in 1..Len(SliceLast(messageHistory.items, HistoryWindow)) |->
        HistoryLine(SliceLast(messageHistory.items, HistoryWindow)[i].msg)]

\* the arguments of a call
MkArgs(userMessage, currentState, messageHistory) ==
    [userMessage |-> userMessage, currentState |-> currentState,
     messageHistory |-> messageHistory]

\* lines 246-257 throw: no API key, no slice/map on the history, no role on a message
PromptThrows(keyPresent, h) ==
    \/ ~keyPresent
    \/ h.t # "array"
    \/ \E i \in 1..Len(SliceLast(h.items, HistoryWindow)) :
          \/ SliceLast(h.items, HistoryWindow)[i].isNull
          \/ SliceLast(h.items, HistoryWindow)[i].msg.role \notin {"user", "agent"}

\* lines 283-286 throw: no text, or text that JSON.parse rejects
ResultThrows(outcome) ==
    \/ outcome.kind \in {"rejects", "noText"}
    \/ outcome.text.json = "invalid"

\* lines 283-295: the settlement once the model call has settled
SettleAfterModel(outcome, currentState) ==
    IF ResultThrows(outcome) THEN OnServiceError(currentState)
    ELSE Resolved(outcome.text)

\* a request body of the in-process route; currentState is <<>> when missing
MkDirectBody(parse, userMessage, currentState, messageHistory) ==
    [parse |-> parse, userMessage |-> userMessage, currentState |-> currentState,
     messageHistory |-> messageHistory]

IdleSvc ==
    [pc |-> "idle", via |-> "none",
     body |-> MkDirectBody("invalid", JUndefined, <<>>, HistOther("undefined")),
     args |-> MkArgs(JUndefined, INITIAL_STATE, HistArray(<<>>)),
     called |-> FALSE, key |-> FALSE, prompt |-> <<>>, outcome |-> NoOutcome,
     settle |-> <<>>, resps |-> <<>>]

DirectBodies ==
    { MkDirectBody("object", um, cs, h) :
        um \in {JStr(Hello), JStr(<<>>)},
        cs \in {<<>>} \cup { <<s>> : s \in States },
        h \in {HistOther("undefined"), HistOther("string"), HistArray(<<Item(SampleMessage)>>),
               HistArray(<<NullItem>>)} }
    \cup { MkDirectBody("invalid", JUndefined, <<>>, HistOther("undefined")) }

\* the history the in-process route hands over: the messages with Date timestamps
RouteHistory(h) ==
    IF ~HistTruthy(h) THEN HistArray(<<>>)
    ELSE HistArray([i \in 1..Len(h.items) |->
            Item([h.items[i].msg EXCEPT
                    !.timestamp = NormalizeTimestamp(h.items[i].msg.timestamp)])])

\* a request arrives at the in-process route
DirectReceive ==
    /\ svc.pc = "idle"
    /\ \E b \in DirectBodies :
         svc' = [IdleSvc EXCEPT !.pc = "received", !.via = "route", !.body = b]
    /\ UNCHANGED <<clientVars, req, reqs, streak>>

\* processUserMessage, lines 244-281: up to the await of the model call
EnterService(s, args, keyPresent) ==
    IF PromptThrows(keyPresent, args.messageHistory)
    THEN [s EXCEPT !.pc = "settled", !.args = args, !.called = TRUE, !.key = keyPresent,
                   !.settle = <<OnServiceError(args.currentState)>>]
    ELSE [s EXCEPT !.pc = "invoking", !.args = args, !.called = TRUE, !.key = keyPresent,
                   !.prompt = chatHistoryText(args.messageHistory)]

\* the in-process route, lines 6-35
DirectPOSTBegin ==
    /\ svc.pc = "received"
    /\ \E keyPresent \in BOOLEAN :
         svc' =
           IF svc.body.parse # "object"
           THEN [svc EXCEPT !.pc = "done", !.resps = OnException(svc.resps)]
           ELSE IF IsInvalidUserMessage(svc.body.userMessage)
           THEN [svc EXCEPT !.pc = "done",
                    !.resps = Append(svc.resps, ErrorResponse(400, UserMessageRequired))]
           ELSE IF svc.body.currentState = <<>>
           THEN [svc EXCEPT !.pc = "done",
                    !.resps = Append(svc.resps, ErrorResponse(400, CurrentStateRequired))]
           ELSE IF NormalizeThrows(svc.body.messageHistory)
           THEN [svc EXCEPT !.pc = "done", !.resps = OnException(svc.resps)]
           ELSE EnterService(svc,
                    MkArgs(svc.body.userMessage, svc.body.currentState[1],
                           RouteHistory(svc.body.messageHistory)),
                    keyPresent)
    /\ UNCHANGED <<clientVars, req, reqs, streak>>

\* the n-th message of a long conversation: turns alternate, contents differ
NumberedMessage(n) ==
    MkMessage([kind |-> "ms", n |-> n], IF n % 2 = 1 THEN "user" ELSE "agent",
              JStr(<<"m", Digits[(n \div 10) + 1], Digits[(n % 10) + 1]>>),
              TsDate(0), "undefined")
LongHistory(n) == HistArray([i \in 1..n |-> Item(NumberedMessage(i))])

\* any other caller of processUserMessage, with any arguments
ServiceHistories ==
    { HistOther("undefined"), HistArray(<<>>), HistArray(<<Item(SampleMessage)>>),
      HistArray(<<NullItem>>) }
    \cup { LongHistory(n) : n \in {HistoryWindow - 1, HistoryWindow, HistoryWindow + 1,
                                    HistoryWindow + 2} }
processUserMessage ==
    /\ svc.pc = "idle"
    /\ \E um \in {JStr(Hello)}, cs \in States, h \in ServiceHistories, keyPresent \in BOOLEAN :
         svc' = EnterService([IdleSvc EXCEPT !.via = "call"], MkArgs(um, cs, h), keyPresent)
    /\ UNCHANGED <<clientVars, req, reqs, streak>>

\* ai.models.generateContent settles, and lines 283-295 run
ModelAnswer ==
    /\ svc.pc = "invoking"
    /\ \E o \in ModelOutcomes :
         svc' = [svc EXCEPT !.pc = "settled", !.outcome = o,
                            !.settle = <<SettleAfterModel(o, svc.args.currentState)>>]
    /\ UNCHANGED <<clientVars, req, reqs, streak>>

\* a settled invocation failed: no API key, a history or message the prompt cannot
\* be built from, a network error, no response text, text that is not JSON
InvocationFailed(s) ==
    \/ ~s.key
    \/ s.args.messageHistory.t # "array"
    \/ \E i \in 1..Len(s.args.messageHistory.items) :
          /\ i > Len(s.args.messageHistory.items) - HistoryWindow
          /\ \/ s.args.messageHistory.items[i].isNull
             \/ s.args.messageHistory.items[i].msg.role \notin {"user", "agent"}
    \/ s.outcome.kind \in {"rejects", "noText"}
    \/ s.outcome.kind = "text" /\ s.outcome.text.json = "invalid"

\* the streak of failed invocations that were given the state the one before returned
NextStreak(s) ==
    IF ~(s.called /\ InvocationFailed(s)) THEN [n |-> 0, state |-> INITIAL_STATE]
    ELSE IF streak.n > 0 /\ s.args.currentState = streak.state
    THEN [n |-> IF streak.n < MaxCalls THEN streak.n + 1 ELSE streak.n,
          state |-> streak.state]
    ELSE [n |-> 1, state |-> s.args.currentState]

\* the await of processUserMessage ends; the in-process route, lines 37-44
AwaitEnds ==
    /\ svc.pc = "settled"
    /\ svc' =
         IF svc.via # "route" THEN [svc EXCEPT !.pc = "done"]
         ELSE IF svc.settle[1].kind = "rejected"
         THEN [svc EXCEPT !.pc = "done", !.resps = OnException(svc.resps)]
         ELSE [svc EXCEPT !.pc = "done",
                          !.resps = Append(svc.resps, SuccessResponse(svc.settle[1].value))]
    /\ streak' = NextStreak(svc)
    /\ UNCHANGED <<clientVars, req, reqs>>

\* the caller takes the result
DirectConsume ==
    /\ svc.pc = "done"
    /\ svc' = IdleSvc
    /\ UNCHANGED <<clientVars, req, reqs, streak>>

(***************************************************************************)
(* StatePanel (StatePanel.tsx): the progress bar.                          *)
(***************************************************************************)
\* the keys of the steps array, in its order
StepKeys == <<"destinationCountry", "amount", "beneficiaryName", "deliveryMethod">>

\* a filter that counts every step with a value
IsStepFilled(key, value) == value # Null

\* the filter callback of lines 52-60
IsStepDone(key, value) ==
    IF value = Null THEN FALSE
    ELSE IF key = "beneficiaryName" THEN ~(SplitLength(Trim(value)) < 2)
    ELSE TRUE

\* steps.filter(...).length
completedStepsCount(state) ==
    Cardinality({ i \in 1..Len(StepKeys) : IsStepDone(StepKeys[i], state[StepKeys[i]]) })

\* (completedStepsCount / steps.length) * 100
percentage(state) == (completedStepsCount(state) * 100) \div Len(StepKeys)

\* the TransferStates the panel is rendered for
PanelNames ==
    { Null, <<>>, <<WS>>, OneName, FullName, PaddedName,
      <<"a", WS, WS, "b">>, <<WS, "a", WS, "b", WS>>, <<"a", WS, "b", WS, "c">> }
PanelStates ==
    { MkState(c, a, b, d, done) :
        c \in {Null, <<>>, Brazil}, a \in {Null, Amount}, b \in PanelNames,
        d \in {Null, Bank}, done \in BOOLEAN }

\* <StatePanel state={...} /> is rendered with another state
StatePanel ==
    /\ \E s \in PanelStates :
         /\ s # transferState
         /\ transferState' = s
         /\ panel' = percentage(s)
    /\ UNCHANGED <<messages, inputValue, isLoading, sessionId, issuedIds, now, calls,
                   sends, req, reqs, svcVars>>

(***************************************************************************)
(* Home (page.tsx)                                                         *)
(***************************************************************************)
Greeting == JStr(<<"Hi! I'm your Send Money Assistant. How can I help you with your transfer today?">>)
INITIAL_MESSAGE ==
    MkMessage([kind |-> "init", n |-> 1], "agent", Greeting, TsDate(0), "undefined")

TroubleText ==
    JStr(<<"I'm having trouble connecting right now. Please try again in a moment.">>)

\* what the user may have typed into the input
Inputs == { <<>>, <<WS>>, <<WS, "h", WS>> }

\* the identifier crypto.randomUUID returned on its n-th call, as text
SessionText(n) == <<"#", Digits[n + 1]>>

\* Date.now().toString()
MsId(n) == [kind |-> "ms", n |-> n]

\* an activation of handleSendMessage that awaits: what its closure captured
\* (userText, newHistory, sessionId, transferState) and where its fetch stands
MkCall(userText, newHistory, sid, ts) ==
    [pc |-> "sent", userText |-> userText, newHistory |-> newHistory,
     sessionId |-> sid, transferState |-> ts,
     response |-> ErrorResponse(0, JUndefined)]

\* the body of the fetch to /api/chat
RequestOf(c) ==
    MkRequest("object", JStr(c.userText), HistArray(SerializeHistory(c.newHistory)),
              JStr(SessionText(c.sessionId)))

\* onChange={(e) => setInputValue(e.target.value)}
Type ==
    /\ \E v \in Inputs : v # inputValue /\ inputValue' = v
    /\ UNCHANGED <<messages, transferState, isLoading, sessionId, issuedIds, now,
                   calls, sends, req, panel, reqs, svcVars>>

\* the clock advances
Tick ==
    /\ now < MaxClock
    /\ now' = now + 1
    /\ UNCHANGED <<messages, transferState, inputValue, isLoading, sessionId,
                   issuedIds, calls, sends, req, panel, reqs, svcVars>>

\* a guard that forgets the request in flight
SendBlockedOnEmptyOnly == Trim(inputValue) = <<>>

\* if (!inputValue.trim() || isLoading) return;
SendBlocked == Trim(inputValue) = <<>> \/ isLoading

\* handleSendMessage, lines 233-263: up to the await of fetch
handleSendMessage ==
    /\ sends < MaxSends
    /\ IF SendBlocked
       THEN UNCHANGED <<messages, inputValue, isLoading, calls, sends>>
       ELSE LET userText == Trim(inputValue)
                userMsg == MkMessage(MsId(now), "user", JStr(userText), TsDate(now),
                                     "undefined")
                newHistory == Append(messages, userMsg)
            IN /\ inputValue' = <<>>
               /\ messages' = newHistory
               /\ isLoading' = TRUE
               /\ calls' = Append(calls, MkCall(userText, newHistory, sessionId,
                                                transferState))
               /\ sends' = sends + 1
    /\ UNCHANGED <<transferState, sessionId, issuedIds, now, req, panel, reqs, svcVars>>

\* what the backend answers to the requests of a page: the answers that differ
\* for Home
SessionAnswers ==
    { Answer(200, MkBody("object", JStr(ReplyText), <<s>>, "undefined", JUndefined)) :
        s \in { MkState(Brazil, Amount, OneName, Bank, FALSE),
                MkState(Brazil, Amount, FullName, Bank, TRUE),
                MkState(Null, Null, Null, Null, TRUE) } }
    \cup { Answer(201, MkBody("object", JStr(ReplyText),
                              <<MkState(Brazil, Amount, FullName, Bank, TRUE)>>,
                              "PROMO", JUndefined)),
           Answer(200, MkBody("object", JStr(ReplyText), <<>>, "null", JUndefined)),
           Answer(200, MkBody("object", JUndefined, <<INITIAL_STATE>>, "undefined",
                              JUndefined)),
           Answer(200, NullBody),
           Answer(400, MkBody("object", JUndefined, <<>>, "undefined", JStr(DetailText))),
           Rejection }

\* the backend (or the network) settles the fetch forwarded for a page
BackendReply ==
    /\ req.pc = "forwarded"
    /\ \E a \in SessionAnswers : req' = [req EXCEPT !.pc = "answered", !.answer = a]
    /\ UNCHANGED <<clientVars, reqs, svcVars>>

\* the request of a pending activation reaches the route
Deliver ==
    /\ req.pc = "idle"
    /\ \E i \in 1..Len(calls) :
         /\ calls[i].pc = "sent"
         /\ \A j \in 1..(i - 1) : calls[j].pc # "sent"
         /\ calls' = [calls EXCEPT ![i].pc = "atRoute"]
         /\ req' = [IdleReq EXCEPT !.pc = "received", !.origin = "client",
                                   !.body = RequestOf(calls[i])]
    /\ UNCHANGED <<messages, transferState, inputValue, isLoading, sessionId,
                   issuedIds, now, sends, panel, reqs, svcVars>>

\* the fetch resolves with the route's response
FetchResolve ==
    /\ req.pc = "done"
    /\ req.origin = "client"
    /\ req.resps # <<>>
    /\ \E i \in 1..Len(calls) :
         /\ calls[i].pc = "atRoute"
         /\ calls' = [calls EXCEPT ![i].pc = "resolved", ![i].response = req.resps[1]]
    /\ req' = IdleReq
    /\ UNCHANGED <<messages, transferState, inputValue, isLoading, sessionId,
                   issuedIds, now, sends, panel, reqs, svcVars>>

\* the fetch rejects: the request never arrived, or its response was lost
FetchReject ==
    /\ \E i \in 1..Len(calls) :
         /\ \/ calls[i].pc = "sent" /\ UNCHANGED req
            \/ calls[i].pc = "atRoute" /\ req.pc = "done" /\ req' = IdleReq
         /\ calls' = [calls EXCEPT ![i].pc = "rejected"]
    /\ UNCHANGED <<messages, transferState, inputValue, isLoading, sessionId,
                   issuedIds, now, sends, panel, reqs, svcVars>>

Remove(seq, i) == SubSeq(seq, 1, i - 1) \o SubSeq(seq, i + 1, Len(seq))

\* a check of the response that lets a body without agentResponse through
ResponseThrowsOnStatusOnly(c) ==
    \/ c.pc = "rejected"
    \/ ~Ok(c.response.status)
    \/ c.response.data.json # "object"

\* the try block after the fetch throws: lines 265-267 and 274-277
ResponseThrows(c) ==
    \/ c.pc = "rejected"
    \/ ~Ok(c.response.status)
    \/ c.response.data.json # "object"
    \/ ~Truthy(c.response.data.agentResponse)

\* data.promo || undefined
PromoOf(data) == IF data.promo = "PROMO" THEN "PROMO" ELSE "undefined"

\* lines 279-285
AgentMessage(data) ==
    MkMessage(MsId(now + 1), "agent", data.agentResponse, TsDate(now), PromoOf(data))

\* lines 291-296
ErrorMessage == MkMessage(MsId(now + 1), "agent", TroubleText, TsDate(now), "undefined")

\* data.updatedState || transferState, with the transferState the closure captured
NextTransferState(data, captured) ==
    IF data.updatedState # <<>> THEN data.updatedState[1] ELSE captured

\* setIsLoading(false) at the end of the try block instead of in a finally
LoadingAfterTryOnly(threw) == threw

\* finally { setIsLoading(false); }
LoadingAfter(threw) == FALSE

\* the message is put after the history the closure captured
AppendToCaptured(prev, captured, m) == Append(captured, m)

\* setMessages(prev => [...prev, agentMsg]),  setMessages(prev => [...prev, errorMsg])
AppendMessage(prev, captured, m) == Append(prev, m)

\* handleSendMessage, lines 265-300: after the await of fetch
handleResponse ==
    /\ \E i \in 1..Len(calls) :
         /\ calls[i].pc \in {"resolved", "rejected"}
         /\ IF ResponseThrows(calls[i])
            THEN /\ messages' = AppendMessage(messages, calls[i].newHistory, ErrorMessage)
                 /\ UNCHANGED transferState
            ELSE /\ messages' = AppendMessage(messages, calls[i].newHistory,
                                              AgentMessage(calls[i].response.data))
                 /\ transferState' =
                      NextTransferState(calls[i].response.data, calls[i].transferState)
         /\ calls' = Remove(calls, i)
         /\ isLoading' = LoadingAfter(ResponseThrows(calls[i]))
    /\ panel' = percentage(transferState')
    /\ UNCHANGED <<inputValue, sessionId, issuedIds, now, sends, req, reqs, svcVars>>

\* a reset that keeps the session
SameSessionId == sessionId

\* crypto.randomUUID(): an identifier it has not returned before
NewSessionId == issuedIds

\* handleReset, lines 303-310
handleReset ==
    /\ issuedIds <= MaxIds
    /\ messages' = <<INITIAL_MESSAGE>>
    /\ transferState' = INITIAL_STATE
    /\ inputValue' = <<>>
    /\ sessionId' = NewSessionId
    /\ issuedIds' = issuedIds + 1
    /\ panel' = percentage(transferState')
    /\ UNCHANGED <<isLoading, now, calls, sends, req, reqs, svcVars>>

\* a page that handles responses as Home does sends a request whose body
\* handleSendMessage did not build: any JSON text may reach the route
Receive ==
    /\ req.pc = "idle"
    /\ calls = <<>>
    /\ sends < MaxSends
    /\ \E b \in RequestBodies :
         req' = [IdleReq EXCEPT !.pc = "received", !.origin = "client", !.body = b]
    /\ calls' = <<[MkCall(<<>>, messages, sessionId, transferState) EXCEPT !.pc = "atRoute"]>>
    /\ isLoading' = TRUE
    /\ sends' = sends + 1
    /\ UNCHANGED <<messages, transferState, inputValue, sessionId, issuedIds, now, panel, reqs, svcVars>>

Init ==
    /\ messages = <<INITIAL_MESSAGE>>
    /\ transferState = INITIAL_STATE
    /\ inputValue = <<>>
    /\ isLoading = FALSE
    /\ sessionId = 0
    /\ issuedIds = 1
    /\ now = 0
    /\ calls = <<>>
    /\ sends = 0
    /\ panel = percentage(INITIAL_STATE)
    /\ req = IdleReq
    /\ reqs = [r \in ReqIds |-> IdleReq]
    /\ svc = IdleSvc
    /\ streak = [n |-> 0, state |-> INITIAL_STATE]

Next ==
    \/ Type \/ Tick \/ handleSendMessage \/ Deliver
    \/ POSTBegin \/ BackendReply \/ POSTFinish
    \/ FetchResolve \/ FetchReject \/ handleResponse \/ handleReset

\* Home, the route and the backend together
Spec == Init /\ [][Next]_vars

\* the same, with the continuation of an activation whose fetch has settled
\* run by the event loop
SpecLive == Spec /\ WF_vars(handleResponse)

NextService ==
    \/ DirectReceive \/ DirectPOSTBegin \/ processUserMessage \/ ModelAnswer
    \/ AwaitEnds \/ DirectConsume

\* processUserMessage under arbitrary calls, and the in-process route around it
SpecService == Init /\ [][NextService]_vars

NextProxy ==
    \/ Receive \/ POSTBegin \/ BackendAnswer \/ POSTFinish
    \/ FetchResolve \/ FetchReject \/ handleResponse

\* the route under arbitrary requests
SpecProxy == Init /\ [][NextProxy]_vars

NextConcurrent ==
    \/ POSTReceive \/ ConcurrentBegin \/ ConcurrentAnswer \/ ConcurrentFinish
    \/ ConcurrentRespond

\* the route under requests that overlap
SpecConcurrent == Init /\ [][NextConcurrent]_vars

\* StatePanel under any state prop
SpecPanel == Init /\ [][StatePanel]_vars

(***************************************************************************)
(* Claims about the proxy route.                                           *)
(***************************************************************************)
\* the wording of the claims, stated on the request body alone
MissingEmptyOrNotString(um) == um.t # "string" \/ um.s = <<>>
ValidationPasses(body) ==
    body.parse = "object" /\ ~MissingEmptyOrNotString(body.userMessage)
HistoryIsSequence(h) ==
    \/ h.t \in {"undefined", "null"}
    \/ h.t = "array" /\ \A i \in 1..Len(h.items) : ~h.items[i].isNull
BackendAnswered == req.pc \in {"answered", "done"} /\ req.fetches # <<>>

\* a malformed request is answered 400 by the route, which does not forward it
MalformedIs400 ==
    (req.pc # "idle" /\ req.body.parse = "object"
        /\ MissingEmptyOrNotString(req.body.userMessage))
    => /\ req.fetches = <<>>
       /\ req.pc \in {"received", "done"}
       /\ req.pc = "done" =>
            /\ req.resps = <<ErrorResponse(400, UserMessageRequired)>>
            /\ req.resps[1].data.updatedState = <<>>
\* the step of a page that handles that response keeps transferState
RejectedTurnKeepsState ==
    \A i \in 1..Len(calls) :
        (calls[i].pc = "resolved"
            /\ calls[i].response = ErrorResponse(400, UserMessageRequired)
            /\ calls' = Remove(calls, i))
        => transferState' = transferState
C6_SuccessBodyVerbatim ==
    (req.pc = "done" /\ BackendAnswered /\ ~req.answer.rejected
        /\ Ok(req.answer.status) /\ req.answer.body.json # "invalid")
    => /\ Len(req.resps) = 1
       /\ Ok(req.resps[1].status)
       /\ req.resps[1].kind = "data"
       /\ req.resps[1].data = req.answer.body

C6_Witness ==
    /\ req.pc = "done"
    /\ BackendAnswered
    /\ ~req.answer.rejected
    /\ req.answer.status = 201
    /\ req.answer.body.promo = "PROMO"
    /\ req.resps # <<>>
    /\ req.resps[1].kind = "data"

\* the backend's error body is JSON with a detail field
HasDetail(body) == body.json = "object" /\ body.detail.t \notin {"undefined", "null"}
\* C7, as the specification states it: on a non-success backend status the
\* response has that status and carries the backend's detail whenever the body is JSON with a detail
\* field, the generic text otherwise.
C7_Original ==
    (req.pc = "done" /\ BackendAnswered /\ ~req.answer.rejected /\ ~Ok(req.answer.status))
    => /\ Len(req.resps) = 1
       /\ req.resps[1].status = req.answer.status
       /\ req.resps[1].kind = "error"
       /\ req.resps[1].error =
            IF HasDetail(req.answer.body) THEN req.answer.body.detail
            ELSE PythonServiceError

\* the backend's error body is JSON with a detail that JavaScript takes as true
HasTruthyDetail(body) ==
    /\ body.json = "object"
    /\ body.detail.t \notin {"undefined", "null"}
    /\ ~(body.detail.t = "string" /\ body.detail.s = <<>>)
    /\ ~(body.detail.t = "number" /\ body.detail.s = <<"0">>)
    /\ ~(body.detail.t = "boolean" /\ body.detail.s # <<"t">>)
\* C7: on a non-success backend status the response has that status and
\* carries the backend's detail when that detail is truthy, and
\* the generic text when the body has no detail, a falsy detail (empty string,
\* 0, false, null) or is not JSON; never a success, never the backend's body.
C7_BackendErrorSurfaced ==
    (req.pc = "done" /\ BackendAnswered /\ ~req.answer.rejected /\ ~Ok(req.answer.status))
    => /\ Len(req.resps) = 1
       /\ req.resps[1].status = req.answer.status
       /\ ~Ok(req.resps[1].status)
       /\ req.resps[1].kind = "error"
       /\ req.resps[1].data = EmptyObject
       /\ req.resps[1].error =
            IF HasTruthyDetail(req.answer.body) THEN req.answer.body.detail
            ELSE PythonServiceError

C7_Witness ==
    /\ req.pc = "done"
    /\ BackendAnswered
    /\ ~req.answer.rejected
    /\ req.answer.status = 422
    /\ req.answer.body.detail = JStr(DetailText)
    /\ req.resps # <<>>
    /\ req.resps[1].error = JStr(DetailText)

\* something threw inside the handler's try block
UnexpectedException ==
    \/ req.body.parse # "object"
    \/ ValidationPasses(req.body) /\ ~HistoryIsSequence(req.body.messageHistory)
    \/ BackendAnswered /\ req.answer.rejected
    \/ BackendAnswered /\ ~req.answer.rejected /\ Ok(req.answer.status)
         /\ req.answer.body.json = "invalid"
\* C8: a request has no response while it is handled and exactly one when the
\* handler has ended; that response is a success carrying the backend's body
\* or a non-2xx carrying {error}; an unparseable request body, a history that
\* is no sequence, an unreachable backend and a success body that is not JSON
\* each give 500 "Internal server error".
C8_ExactlyOneResponse ==
    /\ req.pc \in {"idle", "received", "forwarded", "answered"} => req.resps = <<>>
    /\ req.pc = "done" =>
         /\ Len(req.resps) = 1
         /\ \/ /\ Ok(req.resps[1].status)
               /\ req.resps[1].kind = "data"
               /\ BackendAnswered
               /\ req.resps[1].data = req.answer.body
            \/ /\ ~Ok(req.resps[1].status)
               /\ req.resps[1].kind = "error"
               /\ req.resps[1].error.t # "undefined"
         /\ UnexpectedException =>
              req.resps[1] = ErrorResponse(500, InternalServerError)

C8_Witness ==
    /\ req.pc = "done"
    /\ BackendAnswered
    /\ ~req.answer.rejected
    /\ Ok(req.answer.status)
    /\ req.answer.body.json = "invalid"
    /\ req.resps = <<ErrorResponse(500, InternalServerError)>>

\* C9, as the specification states it: exactly one backend call when
\* validation passes, none when
\* the request is rejected.
C9_Original ==
    req.pc = "done" =>
        Len(req.fetches) = (IF ValidationPasses(req.body) THEN 1 ELSE 0)

\* C9: at most one backend call per request, never a second one after
\* a failed or erroring call; once the handler is past validation there is
\* exactly one when validation passes and the history is absent, null or a
\* sequence of message objects, and none when the request is rejected or an
\* exception (unparseable body, history that is no sequence) comes first.
C9_SingleForward ==
    /\ Len(req.fetches) <= 1
    /\ req.pc \in {"idle", "received"} => req.fetches = <<>>
    /\ req.pc \in {"forwarded", "answered", "done"} =>
         Len(req.fetches) =
            (IF ValidationPasses(req.body) /\ HistoryIsSequence(req.body.messageHistory)
             THEN 1 ELSE 0)

C9_Witness ==
    /\ req.pc = "done"
    /\ Len(req.fetches) = 1
    /\ req.answer.rejected
    /\ req.resps = <<ErrorResponse(500, InternalServerError)>>

(***************************************************************************)
(* Claims about processUserMessage.                                        *)
(***************************************************************************)
\* C1: whenever the invocation inside processUserMessage fails, the value
\* returned is the fixed apology with updatedState equal to the currentState
\* passed in and no promo; and a run of failed calls, each given the state the
\* one before returned, keeps returning the state the run started from.
C1_FallbackKeepsState ==
    (svc.settle # <<>> /\ InvocationFailed(svc))
    => /\ svc.settle[1].value.agentResponse = ApologyText
       /\ svc.settle[1].value.updatedState = <<svc.args.currentState>>
       /\ svc.settle[1].value.promo = "undefined"
       /\ (svc.pc = "done" /\ streak.n > 0) =>
             svc.settle[1].value.updatedState = <<streak.state>>

C1_Witness ==
    /\ svc.pc = "done"
    /\ streak.n = 2
    /\ streak.state # INITIAL_STATE
    /\ svc.outcome.kind = "text"
    /\ svc.outcome.text.json = "invalid"
    /\ svc.settle[1].value.updatedState = <<streak.state>>

\* C2: the promise of processUserMessage never rejects: every call that was
\* made settles resolved, whatever the arguments and whatever the model call
\* did, and the in-process route answers such a call with the resolved value,
\* never from its own catch block.
C2_NeverRejects ==
    /\ svc.settle # <<>> => svc.settle[1].kind = "resolved"
    /\ (svc.called /\ svc.pc \in {"settled", "done"}) => Len(svc.settle) = 1
    /\ (svc.called /\ svc.pc = "done" /\ svc.via = "route") =>
          svc.resps = <<DataResponse(200, svc.settle[1].value)>>

C2_Witness ==
    /\ svc.pc = "done"
    /\ svc.via = "route"
    /\ svc.called
    /\ svc.outcome.kind = "rejects"
    /\ svc.settle[1].kind = "resolved"
    /\ svc.resps # <<>>
    /\ svc.resps[1].status = 200

(***************************************************************************)
(* Claims about Home.                                                      *)
(***************************************************************************)
\* the step is a handleReset: it draws a session identifier
ResetStep == issuedIds' # issuedIds
\* C4: every handleReset step, from whatever state, leaves transferState the
\* all-null incomplete initial state and messages the single greeting, and
\* the session identifier after it differs from the one before it.
C4_ResetYieldsInitial ==
    [][ResetStep =>
          /\ transferState' = MkState(Null, Null, Null, Null, FALSE)
          /\ messages' = <<INITIAL_MESSAGE>>
          /\ sessionId' # sessionId]_vars

C4_Witness ==
    /\ issuedIds = 2
    /\ sessionId = 1
    /\ sends = 2
    /\ calls # <<>>
    /\ messages = <<INITIAL_MESSAGE>>
    /\ transferState = INITIAL_STATE

\* the number of whitespace-separated tokens of a text
RECURSIVE TokenCount(_, _)
TokenCount(s, inToken) ==
    IF s = <<>> THEN 0
    ELSE IF Head(s) = WS THEN TokenCount(Tail(s), FALSE)
    ELSE (IF inToken THEN 0 ELSE 1) + TokenCount(Tail(s), TRUE)

\* C5: in every reachable state of Home, transferState.isComplete is true
\* exactly when the four fields are non-null and beneficiaryName holds at
\* least two whitespace-separated tokens.
C5_CompleteIffAllFields ==
    transferState.isComplete <=>
        /\ transferState.destinationCountry # Null
        /\ transferState.amount # Null
        /\ transferState.beneficiaryName # Null
        /\ transferState.deliveryMethod # Null
        /\ TokenCount(transferState.beneficiaryName, FALSE) >= 2

\* one activation at most awaits, isLoading says whether one does, and the
\* route handles nothing but its request
OneOutstanding ==
    /\ Len(calls) <= 1
    /\ calls # <<>> <=> isLoading
    /\ req.pc # "idle" => (calls # <<>> /\ calls[1].pc = "atRoute")
\* a step taken while an activation awaits accepts no send
NoSendWhileOutstanding ==
    calls # <<>> =>
        /\ sends' = sends
        /\ \A i \in 1..Len(calls') : \E j \in 1..Len(calls) :
              calls'[i].newHistory = calls[j].newHistory
        /\ Len(messages') > Len(messages) => Len(calls') < Len(calls)
\* C10: at most one request of the page is outstanding at any time, and while
\* one is, no step accepts a send: none issues a request, and a message is
\* appended only by the handling of the outstanding request's response; under
\* every interleaving of typing, submits, responses and resets.
C10_OneRequestOutstanding == []OneOutstanding /\ [][NoSendWhileOutstanding]_vars

C10_Witness ==
    /\ calls # <<>>
    /\ calls[1].pc = "atRoute"
    /\ isLoading
    /\ Trim(inputValue) # <<>>
    /\ sends < MaxSends
    /\ issuedIds > 1

(***************************************************************************)
(* Claims about the conversation of Home.                                  *)
(***************************************************************************)
\* the step puts one message at the end of messages and keeps the others
AppendsOne ==
    /\ Len(messages') = Len(messages) + 1
    /\ SubSeq(messages', 1, Len(messages)) = messages
\* C11: a step that is not a handleReset leaves messages unchanged or adds one
\* message at its end, keeping every earlier message in its place; a
\* handleReset step replaces the sequence by the single initial greeting.
C11_AppendOnly ==
    [][IF ResetStep THEN messages' = <<INITIAL_MESSAGE>>
       ELSE messages' = messages \/ AppendsOne]_vars
C11_Witness ==
    /\ issuedIds > 1
    /\ Len(messages) >= 3
    /\ messages[2].role = "user"
    /\ messages[3].role = "agent"

\* the step ends the activation calls[i]: its response is handled
Handles(i) == i \in 1..Len(calls) /\ calls' = Remove(calls, i)
\* the activation got a success response with an agentResponse
GotReply(c) ==
    /\ c.pc = "resolved"
    /\ c.response.status >= 200 /\ c.response.status <= 299
    /\ c.response.data.json = "object"
    /\ c.response.data.agentResponse.t = "string"
    /\ c.response.data.agentResponse.s # <<>>
\* C12: transferState after a step is the initial state when the step is a
\* handleReset, the updatedState of the response when the step handles a
\* successful response that carries one, and in every other step (typing,
\* sending, a failed response, a response without updatedState) what it was
\* before the step.
C12_ReplacedWholesale ==
    [][IF ResetStep THEN transferState' = INITIAL_STATE
       ELSE IF \E i \in 1..Len(calls) :
                  Handles(i) /\ GotReply(calls[i])
                      /\ calls[i].response.data.updatedState # <<>>
       THEN \E i \in 1..Len(calls) :
               /\ Handles(i)
               /\ transferState' = calls[i].response.data.updatedState[1]
       ELSE transferState' = transferState]_vars

\* C18: the step that handles the response to a request sent before the last
\* handleReset (a request that carries an earlier session identifier) leaves
\* transferState and messages as the reset left them.
C18_StaleResponseIgnored ==
    [][\A i \in 1..Len(calls) :
          (Handles(i) /\ calls[i].sessionId # sessionId)
          => (transferState' = transferState /\ messages' = messages)]_vars

\* the send of the activation failed on the client: its fetch rejected, the
\* route answered non-2xx, or the body has no agentResponse
SendFailed(c) ==
    \/ c.pc = "rejected"
    \/ /\ c.pc = "resolved"
       /\ \/ c.response.status < 200
          \/ c.response.status > 299
          \/ c.response.data.json # "object"
          \/ c.response.data.agentResponse.t = "undefined"
\* C20: the step that handles a failed send appends exactly one message, an
\* agent message with the fixed trouble-connecting text and no promo, keeps
\* every message that was there (the user's message among them when no reset
\* discarded it), and leaves transferState and the session identifier as
\* they were.
C20_FailureAppendsNotice ==
    [][\A i \in 1..Len(calls) :
          (Handles(i) /\ SendFailed(calls[i]))
          => /\ AppendsOne
             /\ messages'[Len(messages')].role = "agent"
             /\ messages'[Len(messages')].content =
                  JStr(<<"I'm having trouble connecting right now. Please try again in a moment.">>)
             /\ messages'[Len(messages')].promo = "undefined"
             /\ calls[i].sessionId = sessionId =>
                  /\ Len(messages') = Len(calls[i].newHistory) + 1
                  /\ messages'[Len(messages)].role = "user"
                  /\ messages'[Len(messages)].content = JStr(calls[i].userText)
             /\ transferState' = transferState
             /\ sessionId' = sessionId]_vars
C20_Witness ==
    /\ Len(messages) = 5
    /\ messages[3].content # messages[5].content
    /\ messages[4].role = "user"
    /\ messages[5].role = "agent"
    /\ messages[5].content =
         JStr(<<"I'm having trouble connecting right now. Please try again in a moment.">>)
    /\ transferState # INITIAL_STATE

\* C14: a step that puts a message with a promotional payload into messages
\* is the handling of a reply to a user turn that was sent while
\* transferState was complete, and the message is that agent reply; the
\* greeting, user messages and error notices carry none.
C14_PromoOnlyOnCompleteTurn ==
    [][\A k \in 1..Len(messages') :
          (messages'[k].promo # "undefined"
              /\ (k > Len(messages) \/ messages[k] # messages'[k]))
          => /\ messages'[k].role = "agent"
             /\ k = Len(messages')
             /\ \E i \in 1..Len(calls) :
                   /\ Handles(i)
                   /\ GotReply(calls[i])
                   /\ calls[i].transferState.isComplete]_vars

(***************************************************************************)
(* Claims about the session identifier.                                    *)
(***************************************************************************)
\* the request at the route is the one of the activation that awaits it, and
\* it and its forwarded call carry the identifier that activation sent
SessionForwarded ==
    \A i \in 1..Len(calls) :
        (calls[i].pc = "atRoute" /\ req.pc # "idle")
        => /\ req.body.sessionId.t = "string"
           /\ req.body.sessionId.s = <<"#", Digits[calls[i].sessionId + 1]>>
           /\ \A f \in 1..Len(req.fetches) :
                 /\ req.fetches[f].session_id = <<req.body.sessionId.s>>
                 /\ DOMAIN req.fetches[f] = {"session_id", "userMessage", "messageHistory"}
                 /\ req.fetches[f].userMessage = JStr(calls[i].userText)
                 /\ Len(req.fetches[f].messageHistory) = Len(calls[i].newHistory)
\* an accepted send takes the session identifier of that moment
SendTakesCurrentSession ==
    Len(calls') > Len(calls) => calls'[Len(calls')].sessionId = sessionId
\* C13: every request Home sends carries the session identifier current when
\* it was sent (also after a later reset), the call the route forwards for it
\* carries that identifier as session_id, and what is forwarded besides is
\* the userMessage and the messageHistory of the request and nothing else.
C13_SessionForwarded == []SessionForwarded /\ [][SendTakesCurrentSession]_vars
C13_Witness ==
    /\ req.pc = "forwarded"
    /\ req.fetches # <<>>
    /\ req.fetches[1].session_id = << <<"#", "0">> >>
    /\ sessionId = 1

(***************************************************************************)
(* Claims about the completion of a send.                                  *)
(***************************************************************************)
\* isLoading is true exactly while an activation of handleSendMessage awaits
LoadingIffOutstanding == isLoading <=> Len(calls) > 0
\* the fetch of some activation has resolved or rejected
FetchSettled == \E i \in 1..Len(calls) : calls[i].pc \in {"resolved", "rejected"}
\* the step that completes a send appends exactly one agent message, right
\* after the user's message when no reset discarded it, and ends the loading
CompletesWithOneMessage ==
    \A i \in 1..Len(calls) :
        Handles(i)
        => /\ AppendsOne
           /\ messages'[Len(messages')].role = "agent"
           /\ calls[i].sessionId = sessionId =>
                /\ Len(messages') = Len(calls[i].newHistory) + 1
                /\ messages'[Len(messages)].role = "user"
           /\ Len(calls') = 0 => ~isLoading'
\* C19: isLoading is true in exactly the states where a request is
\* outstanding; once the fetch of an accepted send has settled the send
\* eventually completes, isLoading being false again; and the completing step
\* appends exactly one agent message (the reply or the error notice) after
\* the user's message.
C19_SendCompletes ==
    /\ []LoadingIffOutstanding
    /\ [][CompletesWithOneMessage]_vars
    /\ (FetchSettled ~> ~isLoading)
C19_Witness ==
    /\ sends = 2
    /\ ~isLoading
    /\ Len(messages) = 5
    /\ messages[4].role = "user"
    /\ messages[5].role = "agent"

(***************************************************************************)
(* Claims about StatePanel.                                                *)
(***************************************************************************)
\* the fields of a state that the claim counts as satisfied
SatisfiedFields(state) ==
    { f \in {"destinationCountry", "amount", "deliveryMethod"} : state[f] # Null }
    \cup (IF state.beneficiaryName # Null /\ TokenCount(state.beneficiaryName, FALSE) >= 2
          THEN {"beneficiaryName"} ELSE {})
\* C17: the progress StatePanel shows is the number of satisfied fields out
\* of four, as a percentage: destinationCountry, amount and deliveryMethod
\* count when non-null, beneficiaryName when non-null with at least two
\* whitespace-separated tokens; it is one of 0, 25, 50, 75, 100 and is the
\* same for the same state.
C17_ProgressIsSatisfiedOverFour ==
    /\ 4 * panel = 100 * Cardinality(SatisfiedFields(transferState))
    /\ panel \in {0, 25, 50, 75, 100}
C17_Witness ==
    /\ transferState = MkState(Brazil, Amount, PaddedName, Bank, TRUE)
    /\ panel = 75

(***************************************************************************)
(* Claims about the prompt of processUserMessage.                          *)
(***************************************************************************)
\* the line the claim expects for a message
ExpectedLine(m) ==
    (IF m.role = "user" THEN <<"U", "S", "E", "R">> ELSE <<"A", "G", "E", "N", "T">>)
    \o <<":", " ">> \o m.content.s
\* the prompt of the invocation has been built
PromptBuilt == svc.pc = "invoking" \/ svc.outcome.kind # "none"
\* C16: the conversation history in the prompt is the last 10 messages of the
\* history handed to processUserMessage (all of them when there are 10 or
\* fewer), in their order, each as its upper-cased role, a colon and its
\* content; no earlier message appears.
C16_LastTenInPrompt ==
    PromptBuilt =>
        LET h == svc.args.messageHistory.items
            n == Len(h)
            m == IF n <= 10 THEN n ELSE 10
        IN /\ Len(svc.prompt) = m
           /\ \A k \in 1..m : svc.prompt[k] = ExpectedLine(h[n - m + k].msg)
C16_Witness ==
    /\ svc.pc = "invoking"
    /\ Len(svc.args.messageHistory.items) = 12
    /\ Len(svc.prompt) = 10
    /\ svc.prompt[1] = <<"U", "S", "E", "R", ":", " ", "m", "0", "3">>
    /\ svc.prompt[10] = <<"A", "G", "E", "N", "T", ":", " ", "m", "1", "2">>

(***************************************************************************)
(* Claims about concurrent requests.                                       *)
(***************************************************************************)
\* the response a request with this body gets when the backend's reply to its
\* own call is this answer (the answer plays no part when nothing is forwarded)
ResponseFor(body, answer) ==
    IF body.parse # "object"
    THEN ErrorResponse(500, JStr(<<"Internal server error">>))
    ELSE IF MissingEmptyOrNotString(body.userMessage)
    THEN ErrorResponse(400, JStr(<<"userMessage is required and must be a string">>))
    ELSE IF ~HistoryIsSequence(body.messageHistory) \/ answer.rejected
    THEN ErrorResponse(500, JStr(<<"Internal server error">>))
    ELSE IF answer.status >= 200 /\ answer.status <= 299
    THEN (IF answer.body.json = "invalid"
          THEN ErrorResponse(500, JStr(<<"Internal server error">>))
          ELSE DataResponse(200, answer.body))
    ELSE ErrorResponse(answer.status,
            IF HasTruthyDetail(answer.body) THEN answer.body.detail
            ELSE JStr(<<"Python service error">>))
\* C15: whatever other requests the route handles meanwhile, a request has no
\* response until its handler ends and then exactly the response that its
\* own body and the backend's reply to its own forwarded call determine, and
\* its forwarded call is built from its own body.
C15_ResponseFromOwnRequest ==
    \A r \in ReqIds :
        /\ reqs[r].pc # "done" => reqs[r].resps = <<>>
        /\ reqs[r].pc = "done" =>
             reqs[r].resps = <<ResponseFor(reqs[r].body, reqs[r].answer)>>
        /\ \A f \in 1..Len(reqs[r].fetches) :
             /\ reqs[r].fetches[f].userMessage = reqs[r].body.userMessage
             /\ reqs[r].fetches[f].session_id =
                  (IF reqs[r].body.sessionId = JUndefined THEN <<>>
                   ELSE <<reqs[r].body.sessionId.s>>)
C15_Witness ==
    /\ reqs[1].pc = "done"
    /\ reqs[2].pc = "done"
    /\ reqs[1].body # reqs[2].body
    /\ reqs[1].fetches # <<>>
    /\ reqs[2].fetches # <<>>
    /\ reqs[1].answer.status = 422
    /\ reqs[2].answer.status = 200
    /\ reqs[1].resps[1].kind = "error"
    /\ reqs[2].resps[1].kind = "data"

(***************************************************************************)
(* Claims about what Home sends.                                           *)
(***************************************************************************)
\* the text has a character that is not whitespace
HasVisibleCharacter(t) == \E k \in 1..Len(t) : t[k] # " "
\* the request at the route passes its validation: the userMessage is a
\* non-empty string without whitespace at either end, and the history ends
\* with the user message of that text
RequestIsValid ==
    (req.pc # "idle" /\ req.origin = "client")
    => /\ req.body.parse = "object"
       /\ req.body.userMessage.t = "string"
       /\ req.body.userMessage.s # <<>>
       /\ req.body.userMessage.s[1] # " "
       /\ req.body.userMessage.s[Len(req.body.userMessage.s)] # " "
       /\ req.body.messageHistory.t = "array"
       /\ req.body.messageHistory.items # <<>>
       /\ LET last == req.body.messageHistory.items[Len(req.body.messageHistory.items)]
          IN /\ ~last.isNull
             /\ last.msg.role = "user"
             /\ last.msg.content = req.body.userMessage
       /\ req.pc = "done" =>
            req.resps # <<ErrorResponse(400, JStr(<<"userMessage is required and must be a string">>))>>
\* a step sends only when the input has more than whitespace, and what it
\* will send is the message it appended
SendsOnlyVisibleInput ==
    Len(calls') > Len(calls)
    => /\ HasVisibleCharacter(inputValue)
       /\ calls'[Len(calls')].userText # <<>>
       /\ messages'[Len(messages')].role = "user"
       /\ messages'[Len(messages')].content = JStr(calls'[Len(calls')].userText)
       /\ calls'[Len(calls')].newHistory = messages'
\* C21: handleSendMessage sends nothing when the trimmed input is empty, and
\* every request of Home that reaches the route passes its validation: the
\* userMessage is a non-empty string with no whitespace at its ends, and the
\* history ends with that same user message; the route never answers it
\* with the 400 of a malformed request.
C21_ClientRequestsAreValid == []RequestIsValid /\ [][SendsOnlyVisibleInput]_vars
C21_Witness ==
    /\ req.pc = "forwarded"
    /\ req.origin = "client"
    /\ req.body.userMessage = JStr(<<"h">>)
    /\ Len(req.body.messageHistory.items) = 4
    /\ inputValue = <<" ">>

(***************************************************************************)
(* Claims about message identifiers.                                       *)
(***************************************************************************)
\* C22: in every reachable state of Home the identifiers of the messages in
\* the sequence are pairwise distinct, whatever the timing of sends and
\* responses.
C22_MessageIdsDistinct ==
    \A i, j \in 1..Len(messages) : i # j => messages[i].id # messages[j].id

====
